---- MODULE Spec2Model ----
(***************************************************************************)
(* Serial-to-WebSocket bridge of esp32s3-serialusb-network.                *)
(*                                                                         *)
(* Activities (FreeRTOS tasks) and the code each one runs:                 *)
(*   "rx"    serial data callback    -> HttpServer::broadcast(data)        *)
(*   "conn"  connection callback     -> HttpServer::broadcast(status)      *)
(*   "ping"  HttpServer::ping_task                                         *)
(*   "httpd" the HTTP server task: websocket_handler (GET = subscribe),    *)
(*           close_fn -> handle_client_close, the upload handlers          *)
(*   wifi event handlers, usb_loop and an external caller of setState.     *)
(* Every statement that touches ws_clients is one step, so that the        *)
(* interleavings the registry mutex allows (and forbids) are explored.     *)
(*                                                                         *)
(* Specifications slice the program: Spec (the bridge), SpecLed (the       *)
(* indicator with every caller of setState, an upload reduced to its       *)
(* effect on the indicator), SpecUpdate (the two upload handlers with the  *)
(* flash they erase and write), SpecTx (the frames of the clients on their *)
(* way to the serial device), SpecLock (the two mutexes with every task    *)
(* that takes one) and SpecUsb (usb_loop with the data callback).          *)
(***************************************************************************)
EXTENDS Integers, Sequences, FiniteSets, TLC

\* ------------------------------------------------------------------ bounds
NumClients == 3      \* socket descriptors 1..NumClients
MaxChunks == 2       \* serial chunks delivered by the driver per boot
MaxStreak == 2       \* cap of the consecutive-backpressure counter
BUF_SZ == 2          \* receive buffer of the upload handlers, in units of 2 KB
OtaSize == 3         \* size of an OTA application partition, in the same units
FsSize == 3          \* size of the LittleFS partition
MaxLen == 4          \* largest Content-Length of an upload request
MaxTimeouts == 4     \* cap of the consecutive-timeout counter
MaxFrames == 2       \* non-empty frames received from clients per boot
SerialBufferSize == 3  \* sizeof(serial_buffer), in units of 1024/3 bytes
MaxDataLen == 5      \* longest chunk the driver hands to handle_rx, same units

Clients == 1..NumClients
OtaPartitions == {0, 1}     \* ota_0, ota_1
Broadcasters == {"rx", "conn"}
NoTask == "none"

\* esp_err_t results of httpd_ws_send_frame_async that the code tells apart
ESP_OK == "ESP_OK"
ESP_ERR_NO_MEM == "ESP_ERR_NO_MEM"
ESP_FAIL == "ESP_FAIL"
SendResults == {ESP_OK, ESP_ERR_NO_MEM, ESP_FAIL}

\* enum class LedState
IDLE == "IDLE"
WIFI_DISCONNECTED == "WIFI_DISCONNECTED"
USB_CONNECTED == "USB_CONNECTED"
WEB_TERMINAL_ACTIVE == "WEB_TERMINAL_ACTIVE"
UPLOADING == "UPLOADING"
ERROR == "ERROR"
LedState == {IDLE, WIFI_DISCONNECTED, USB_CONNECTED, WEB_TERMINAL_ACTIVE, UPLOADING, ERROR}

VARIABLES
  ws_clients,               \* std::vector<int>: the registry, in insertion order
  ws_clients_mutex,         \* the task holding the registry mutex, or NoTask
  currentState,             \* LedIndicator::currentState
  vcp,                      \* UsbHandler::vcp != nullptr
  device_disconnected_sem,  \* binary semaphore given by handle_event
  bpc, bit, bmsg,           \* per broadcaster: position, iterator index, payload
  ppc, pit,                 \* ping_task: position, iterator index
  hpc, hfd,                 \* httpd task: position, descriptor of the request
  nextSeq,                  \* arrival number of the next serial chunk
  content_len,              \* req->content_len of the upload being handled
  remaining, written,       \* locals of the upload handler (written: bytes in the region)
  running,                  \* the OTA partition the device booted from
  bootSel,                  \* the OTA partition the boot loader will start next
  ota,                      \* contents of the two OTA partitions
  dataPart,                 \* contents of the LittleFS partition
  queued,                   \* an upload request waits on its socket for the server task
  \* history variables (never read by the program)
  hadded,                   \* the running subscribe did push_back
  due,                      \* of the running data broadcast: registered at call time, still so
  snap,                     \* per broadcaster: registry when the mutex was taken
  log,                      \* per broadcaster: <<fd, result, payload>> of this call's sends
  plog,                     \* ping_task: <<fd, result>> of this round's sends
  stream,                   \* per registered client: serial chunk numbers sent to it
  streak,                   \* per client: consecutive ESP_ERR_NO_MEM results of data sends
  ledCall,                  \* the setState call of the step just taken: <<state before,
                            \* state asked for>>, <<>> when the step made none
  sessions,                 \* kinds of the upload sessions between begin and their end
  wasQueued,                \* the request being handled arrived while another was handled
  timeouts,                 \* consecutive receive timeouts of the running upload
  outcome,                  \* how the last upload request ended
  chunks,                   \* <<offset, length>> of the writes of the running upload
  retried,                  \* the running upload saw two consecutive receive timeouts
  isUSBConnected,           \* HttpServer::isUSBConnected, the status last told to a client
  wire,                     \* payloads handed to the serial device (vcp->tx_blocking)
  rxFrames,                 \* payloads of the non-empty frames received from clients
  txCalls,                  \* payloads passed to UsbHandler::tx_blocking
  txbuf,                    \* the payload of the tx_blocking call that passed `if (vcp)`
  stateMutex,               \* the task holding LedIndicator::stateMutex, or NoTask
  lpc,                      \* led_task: position
  serial_buffer_len,        \* bytes buffered by handle_rx
  rpc,                      \* handle_rx (the driver's data callback): position
  data_len, copy_len,       \* its argument and its local
  rtmp,                     \* the value it loaded for `serial_buffer_len += copy_len`
  maxEnd                    \* history: the highest end offset of a memcpy into the buffer

vars == <<ws_clients, ws_clients_mutex, currentState, vcp, device_disconnected_sem,
          bpc, bit, bmsg, ppc, pit, hpc, hfd, nextSeq,
          hadded, due, snap, log, plog, stream, streak,
          content_len, remaining, written, running, bootSel, ota, dataPart, queued,
          ledCall, sessions, wasQueued, timeouts, outcome, chunks, retried,
          isUSBConnected, wire, rxFrames, txCalls, txbuf,
          stateMutex, lpc, serial_buffer_len, rpc, data_len, copy_len, rtmp, maxEnd>>

\* what only the upload handlers, the boot loader and their requests change
upvars == <<content_len, remaining, written, running, bootSel, ota, dataPart, queued,
            sessions, wasQueued, timeouts, outcome, chunks, retried>>

\* what only the frames of the clients change
txvars == <<isUSBConnected, wire, rxFrames, txCalls, txbuf>>

\* the indicator's mutex and the task that renders the state
lockvars == <<stateMutex, lpc>>

\* what only the data callback of the serial driver changes
rxvars == <<serial_buffer_len, rpc, data_len, copy_len, rtmp, maxEnd>>

\* ----------------------------------------------------------------- helpers
Range(s) == {s[i] : i \in 1..Len(s)}

\* an erase that is handed begin() instead of the iterator
EraseAtBegin(s, i) == Tail(s)

\* std::vector::erase(it): the sequence without its i-th element
EraseAt(s, i) == [j \in 1..(Len(s) - 1) |-> IF j < i THEN s[j] ELSE s[j + 1]]

\* std::find(ws_clients.begin(), ws_clients.end(), fd) - index, or 0
FindIndex(s, fd) == IF fd \in Range(s) THEN CHOOSE i \in 1..Len(s) : s[i] = fd ELSE 0

Count(s, fd) == Cardinality({i \in 1..Len(s) : s[i][1] = fd})

\* ------------------------------------------------------------ LedIndicator
setStateDropsUploadGuard(cur, new) ==
  IF cur = ERROR THEN cur ELSE new

\* an indicator that shows whatever was asked for last
setStateLastWins(cur, new) == new

\* an indicator on which TerminalActive outranks the states of the network and
\* of the serial device
setStateTerminalOutranks(cur, new) ==
  IF cur = ERROR THEN cur
  ELSE IF cur = UPLOADING /\ new # ERROR THEN cur
  ELSE IF cur = WEB_TERMINAL_ACTIVE /\ new \in {IDLE, WIFI_DISCONNECTED, USB_CONNECTED} THEN cur
  ELSE new

\* an indicator whose ERROR can be replaced
setStateNoLatch(cur, new) ==
  IF cur = UPLOADING /\ new # ERROR THEN cur ELSE new

\* an indicator whose UPLOADING yields to nothing
setStateUploadBlocksAll(cur, new) ==
  IF cur = ERROR \/ cur = UPLOADING THEN cur ELSE new

\* LedIndicator::setState: the value of currentState after setState(new)
setState(cur, new) ==
  IF cur = ERROR THEN cur
  ELSE IF cur = UPLOADING /\ new # ERROR THEN cur
  ELSE new

\* line 37: xSemaphoreTake(stateMutex, portMAX_DELAY) returns
StateMutexAvailable == stateMutex = NoTask

\* a setState that returns from its latch branch without giving the mutex back
stateMutexKeptWhenLatched(cur) == IF cur = ERROR THEN "setState" ELSE NoTask

\* lines 39-50: the holder of stateMutex when setState returns (every path gives)
stateMutexAfterSetState(cur) == NoTask

\* LedIndicator::run lines 80-81, getState lines 53-54: led_task takes the mutex
GetStateTake ==
  /\ lpc = "delay"
  /\ StateMutexAvailable
  /\ stateMutex' = "led"
  /\ lpc' = "get"
  /\ ledCall' = <<>>
  /\ UNCHANGED upvars
  /\ UNCHANGED txvars
  /\ UNCHANGED rxvars
  /\ UNCHANGED <<ws_clients, ws_clients_mutex, currentState, vcp, device_disconnected_sem,
                 bpc, bit, bmsg, ppc, pit, hpc, hfd, nextSeq, hadded, due, snap, log, plog,
                 stream, streak>>

\* getState lines 55-57, run lines 83-91: the copy, the give, the rendering, the delay
GetStateGive ==
  /\ lpc = "get"
  /\ stateMutex' = NoTask
  /\ lpc' = "delay"
  /\ ledCall' = <<>>
  /\ UNCHANGED upvars
  /\ UNCHANGED txvars
  /\ UNCHANGED rxvars
  /\ UNCHANGED <<ws_clients, ws_clients_mutex, currentState, vcp, device_disconnected_sem,
                 bpc, bit, bmsg, ppc, pit, hpc, hfd, nextSeq, hadded, due, snap, log, plog,
                 stream, streak>>

\* ------------------------------------------------- history-variable updates
\* client c left the registry through actor self (a broadcaster, "ping", "httpd")
DueWithout(c, self) == IF self = "rx" THEN due ELSE due \ {c}

BumpStreak(n, res) == IF res = ESP_ERR_NO_MEM THEN (IF n < MaxStreak THEN n + 1 ELSE n) ELSE 0

\* --------------------------------------------------- HttpServer::broadcast
\* a broadcast whose error branch treats every failure alike
RemovesClientOnAnyError(res) == res # ESP_OK

\* lines 247-262: which send results erase the client
RemovesClient(res) == res # ESP_OK /\ res # ESP_ERR_NO_MEM

\* advancing after erase() as well skips the element that moved into the slot
NextItSkipsAfterErase(i, res) == i + 1

\* a send that is repeated while the queue is full
NextItRetriesNoMem(i, res) == IF res = ESP_OK THEN i + 1 ELSE i

\* lines 255, 261, 266: the iterator after one send (erase returns the next element)
NextIt(i, res) == IF RemovesClient(res) THEN i ELSE i + 1

\* a payload pointer left on the first buffer
PayloadStale(t) == IF t = "rx" THEN 1 ELSE 0

\* line 239: ws_pkt.payload = data
Payload(t) == bmsg[t]

\* a section entered without waiting for the semaphore
MutexAvailableNoWait == TRUE

\* xSemaphoreTake(ws_clients_mutex, portMAX_DELAY) returns when the mutex is free
MutexAvailable == ws_clients_mutex = NoTask

\* start() lines 696-703: the callbacks registered with the serial transport call
\* broadcast; the data callback runs only while a device is open
BroadcastCall(t) ==
  /\ bpc[t] = "idle"
  /\ IF t = "rx"
       THEN /\ vcp
            /\ nextSeq <= MaxChunks
            /\ bmsg' = [bmsg EXCEPT ![t] = nextSeq]
            /\ nextSeq' = nextSeq + 1
       ELSE /\ bmsg' = [bmsg EXCEPT ![t] = 0]
            /\ UNCHANGED nextSeq
  /\ bpc' = [bpc EXCEPT ![t] = "take"]
  /\ due' = IF t = "rx" THEN Range(ws_clients) ELSE due
  /\ log' = [log EXCEPT ![t] = <<>>]
  /\ ledCall' = <<>>
  /\ UNCHANGED upvars
  /\ UNCHANGED txvars
  /\ UNCHANGED lockvars
  /\ UNCHANGED rxvars
  /\ UNCHANGED <<ws_clients, ws_clients_mutex, currentState, vcp, device_disconnected_sem,
                 bit, ppc, pit, hpc, hfd, hadded, snap, plog, stream, streak>>

\* line 227 and the loop initialisation of line 234
BroadcastTake(t) ==
  /\ bpc[t] = "take"
  /\ MutexAvailable
  /\ ws_clients_mutex' = t
  /\ bpc' = [bpc EXCEPT ![t] = "loop"]
  /\ bit' = [bit EXCEPT ![t] = 1]
  /\ snap' = [snap EXCEPT ![t] = Range(ws_clients)]
  /\ ledCall' = <<>>
  /\ UNCHANGED upvars
  /\ UNCHANGED txvars
  /\ UNCHANGED lockvars
  /\ UNCHANGED rxvars
  /\ UNCHANGED <<ws_clients, currentState, vcp, device_disconnected_sem, bmsg, ppc, pit,
                 hpc, hfd, nextSeq, hadded, due, log, plog, stream, streak>>

\* lines 234-267: one iteration, the send returning res
BroadcastSend(t, res) ==
  /\ bpc[t] = "loop"
  /\ bit[t] <= Len(ws_clients)
  /\ LET fd == ws_clients[bit[t]] IN
       /\ log' = [log EXCEPT ![t] = Append(@, <<fd, res, Payload(t)>>)]
       /\ IF RemovesClient(res)
            THEN /\ ws_clients' = EraseAt(ws_clients, bit[t])
                 /\ due' = DueWithout(fd, t)
                 /\ stream' = [stream EXCEPT ![fd] = <<>>]
                 /\ streak' = [streak EXCEPT ![fd] = 0]
            ELSE /\ stream' = IF t = "rx" THEN [stream EXCEPT ![fd] = Append(@, Payload(t))]
                                          ELSE stream
                 /\ streak' = IF t = "rx" THEN [streak EXCEPT ![fd] = BumpStreak(@, res)]
                                          ELSE streak
                 /\ UNCHANGED <<ws_clients, due>>
       /\ bit' = [bit EXCEPT ![t] = NextIt(bit[t], res)]
  /\ ledCall' = <<>>
  /\ UNCHANGED upvars
  /\ UNCHANGED txvars
  /\ UNCHANGED lockvars
  /\ UNCHANGED rxvars
  /\ UNCHANGED <<ws_clients_mutex, currentState, vcp, device_disconnected_sem, bpc, bmsg,
                 ppc, pit, hpc, hfd, nextSeq, hadded, snap, plog>>

\* line 234: it == ws_clients.end()
BroadcastLoopEnd(t) ==
  /\ bpc[t] = "loop"
  /\ bit[t] > Len(ws_clients)
  /\ bpc' = [bpc EXCEPT ![t] = "give"]
  /\ ledCall' = <<>>
  /\ UNCHANGED upvars
  /\ UNCHANGED txvars
  /\ UNCHANGED lockvars
  /\ UNCHANGED rxvars
  /\ UNCHANGED <<ws_clients, ws_clients_mutex, currentState, vcp, device_disconnected_sem,
                 bit, bmsg, ppc, pit, hpc, hfd, nextSeq, hadded, due, snap,
                 log, plog, stream, streak>>

\* lines 270-271: xSemaphoreGive and return
BroadcastGive(t) ==
  /\ bpc[t] = "give"
  /\ ws_clients_mutex' = NoTask
  /\ bpc' = [bpc EXCEPT ![t] = "idle"]
  /\ bit' = [bit EXCEPT ![t] = 0]
  /\ bmsg' = [bmsg EXCEPT ![t] = 0]
  /\ due' = IF t = "rx" THEN {} ELSE due
  /\ snap' = [snap EXCEPT ![t] = {}]
  /\ log' = [log EXCEPT ![t] = <<>>]
  /\ ledCall' = <<>>
  /\ UNCHANGED upvars
  /\ UNCHANGED txvars
  /\ UNCHANGED lockvars
  /\ UNCHANGED rxvars
  /\ UNCHANGED <<ws_clients, currentState, vcp, device_disconnected_sem, ppc, pit,
                 hpc, hfd, nextSeq, hadded, plog, stream, streak>>

\* --------------------------------------------------- HttpServer::ping_task
\* lines 52-54 and the loop initialisation of line 60: the delay has elapsed and
\* xSemaphoreTake returns
PingTake ==
  /\ ppc = "delay"
  /\ MutexAvailable
  /\ ws_clients_mutex' = "ping"
  /\ ppc' = "loop"
  /\ pit' = 1
  /\ plog' = <<>>
  /\ ledCall' = <<>>
  /\ UNCHANGED upvars
  /\ UNCHANGED txvars
  /\ UNCHANGED lockvars
  /\ UNCHANGED rxvars
  /\ UNCHANGED <<ws_clients, currentState, vcp, device_disconnected_sem, bpc, bit, bmsg,
                 hpc, hfd, nextSeq, hadded, due, snap, log, stream, streak>>

\* lines 60-72: one iteration, the PING send returning res
PingSend(res) ==
  /\ ppc = "loop"
  /\ pit <= Len(ws_clients)
  /\ LET fd == ws_clients[pit] IN
       /\ plog' = Append(plog, <<fd, res>>)
       /\ IF res # ESP_OK
            THEN /\ ws_clients' = EraseAt(ws_clients, pit)
                 /\ due' = DueWithout(fd, "ping")
                 /\ stream' = [stream EXCEPT ![fd] = <<>>]
                 /\ streak' = [streak EXCEPT ![fd] = 0]
                 /\ UNCHANGED pit
            ELSE /\ pit' = pit + 1
                 /\ UNCHANGED <<ws_clients, due, stream, streak>>
  /\ ledCall' = <<>>
  /\ UNCHANGED upvars
  /\ UNCHANGED txvars
  /\ UNCHANGED lockvars
  /\ UNCHANGED rxvars
  /\ UNCHANGED <<ws_clients_mutex, currentState, vcp, device_disconnected_sem, bpc, bit,
                 bmsg, ppc, hpc, hfd, nextSeq, hadded, snap, log>>

\* line 60: it == ws_clients.end()
PingLoopEnd ==
  /\ ppc = "loop"
  /\ pit > Len(ws_clients)
  /\ ppc' = "give"
  /\ ledCall' = <<>>
  /\ UNCHANGED upvars
  /\ UNCHANGED txvars
  /\ UNCHANGED lockvars
  /\ UNCHANGED rxvars
  /\ UNCHANGED <<ws_clients, ws_clients_mutex, currentState, vcp, device_disconnected_sem,
                 bpc, bit, bmsg, pit, hpc, hfd, nextSeq, hadded, due, snap,
                 log, plog, stream, streak>>

\* line 73: xSemaphoreGive, back to the delay
PingGive ==
  /\ ppc = "give"
  /\ ws_clients_mutex' = NoTask
  /\ ppc' = "delay"
  /\ pit' = 0
  /\ plog' = <<>>
  /\ ledCall' = <<>>
  /\ UNCHANGED upvars
  /\ UNCHANGED txvars
  /\ UNCHANGED lockvars
  /\ UNCHANGED rxvars
  /\ UNCHANGED <<ws_clients, currentState, vcp, device_disconnected_sem, bpc, bit, bmsg,
                 hpc, hfd, nextSeq, hadded, due, snap, log, stream, streak>>

\* ------------------------------------- HttpServer::websocket_handler (GET)
\* a duplicate check that never finds the descriptor
AlreadyPresentNever(fd) == FALSE

\* line 285: std::find(...) != ws_clients.end()
AlreadyPresent(fd) == fd \in Range(ws_clients)

\* lines 277-281: the handshake GET of descriptor fd reaches the handler and
\* xSemaphoreTake returns
SubTake(fd) ==
  /\ hpc = "idle"
  /\ MutexAvailable
  /\ ws_clients_mutex' = "httpd"
  /\ hpc' = "sub_crit"
  /\ hfd' = fd
  /\ hadded' = FALSE
  /\ ledCall' = <<>>
  /\ UNCHANGED upvars
  /\ UNCHANGED txvars
  /\ UNCHANGED lockvars
  /\ UNCHANGED rxvars
  /\ UNCHANGED <<ws_clients, currentState, vcp, device_disconnected_sem, bpc, bit, bmsg,
                 ppc, pit, nextSeq, due, snap, log, plog, stream, streak>>

\* lines 285-293: duplicate check, first-client LED change, push_back
SubCrit ==
  /\ hpc = "sub_crit"
  /\ IF ~AlreadyPresent(hfd)
       THEN /\ currentState' = IF Len(ws_clients) = 0
                                 THEN setState(currentState, WEB_TERMINAL_ACTIVE)
                                 ELSE currentState
            /\ ledCall' = IF Len(ws_clients) = 0
                            THEN <<currentState, WEB_TERMINAL_ACTIVE>>
                            ELSE <<>>
            /\ ws_clients' = Append(ws_clients, hfd)
            /\ hadded' = TRUE
            /\ stream' = [stream EXCEPT ![hfd] = <<>>]
            /\ streak' = [streak EXCEPT ![hfd] = 0]
       ELSE /\ ledCall' = <<>>
            /\ UNCHANGED <<currentState, ws_clients, hadded, stream, streak>>
  /\ hpc' = "sub_give"
  /\ UNCHANGED upvars
  /\ UNCHANGED txvars
  /\ IF ~AlreadyPresent(hfd) /\ Len(ws_clients) = 0
       THEN StateMutexAvailable /\ stateMutex' = stateMutexAfterSetState(currentState)
       ELSE UNCHANGED stateMutex
  /\ UNCHANGED lpc
  /\ UNCHANGED rxvars
  /\ UNCHANGED <<ws_clients_mutex, vcp, device_disconnected_sem, bpc, bit, bmsg, ppc, pit,
                 hfd, nextSeq, due, snap, log, plog>>

\* lines 294-296: xSemaphoreGive and return ESP_OK
SubGive ==
  /\ hpc = "sub_give"
  /\ ws_clients_mutex' = NoTask
  /\ hpc' = "idle"
  /\ hfd' = 0
  /\ hadded' = FALSE
  /\ ledCall' = <<>>
  /\ UNCHANGED upvars
  /\ UNCHANGED txvars
  /\ UNCHANGED lockvars
  /\ UNCHANGED rxvars
  /\ UNCHANGED <<ws_clients, currentState, vcp, device_disconnected_sem, bpc, bit, bmsg,
                 ppc, pit, nextSeq, due, snap, log, plog, stream, streak>>


\* ------------------------------------------ HttpServer::handle_client_close
\* a bridge that reports a missing serial device as a fault
RevertStateFaultWhenGone(connected) == IF connected THEN USB_CONNECTED ELSE ERROR

\* a revert that forgets to ask the serial transport
RevertStateAlwaysIdle(connected) == IDLE

\* lines 570-577: the state requested when the last client has gone
RevertState(connected) == IF connected THEN USB_CONNECTED ELSE IDLE

\* start() lines 597-602 and line 559: close_fn of descriptor fd runs and
\* xSemaphoreTake returns
CloseTake(fd) ==
  /\ hpc = "idle"
  /\ MutexAvailable
  /\ ws_clients_mutex' = "httpd"
  /\ hpc' = "close_crit"
  /\ hfd' = fd
  /\ hadded' = FALSE
  /\ ledCall' = <<>>
  /\ UNCHANGED upvars
  /\ UNCHANGED txvars
  /\ UNCHANGED lockvars
  /\ UNCHANGED rxvars
  /\ UNCHANGED <<ws_clients, currentState, vcp, device_disconnected_sem, bpc, bit, bmsg,
                 ppc, pit, nextSeq, due, snap, log, plog, stream, streak>>

\* lines 561-579: find, erase, LED revert when the registry became empty
CloseCrit ==
  /\ hpc = "close_crit"
  /\ IF FindIndex(ws_clients, hfd) # 0
       THEN /\ ws_clients' = EraseAt(ws_clients, FindIndex(ws_clients, hfd))
            /\ currentState' = IF Len(ws_clients) = 1
                                 THEN setState(currentState, RevertState(vcp))
                                 ELSE currentState
            /\ ledCall' = IF Len(ws_clients) = 1
                            THEN <<currentState, RevertState(vcp)>>
                            ELSE <<>>
            /\ due' = DueWithout(hfd, "httpd")
            /\ stream' = [stream EXCEPT ![hfd] = <<>>]
            /\ streak' = [streak EXCEPT ![hfd] = 0]
       ELSE /\ ledCall' = <<>>
            /\ UNCHANGED <<ws_clients, currentState, due, stream, streak>>
  /\ hpc' = "close_give"
  /\ UNCHANGED upvars
  /\ UNCHANGED txvars
  /\ IF FindIndex(ws_clients, hfd) # 0 /\ Len(ws_clients) = 1
       THEN StateMutexAvailable /\ stateMutex' = stateMutexAfterSetState(currentState)
       ELSE UNCHANGED stateMutex
  /\ UNCHANGED lpc
  /\ UNCHANGED rxvars
  /\ UNCHANGED <<ws_clients_mutex, vcp, device_disconnected_sem, bpc, bit, bmsg, ppc, pit,
                 hfd, nextSeq, hadded, snap, log, plog>>

\* line 580 and the return
CloseGive ==
  /\ hpc = "close_give"
  /\ ws_clients_mutex' = NoTask
  /\ hpc' = "idle"
  /\ hfd' = 0
  /\ ledCall' = <<>>
  /\ UNCHANGED upvars
  /\ UNCHANGED txvars
  /\ UNCHANGED lockvars
  /\ UNCHANGED rxvars
  /\ UNCHANGED <<ws_clients, currentState, vcp, device_disconnected_sem, bpc, bit, bmsg,
                 ppc, pit, nextSeq, hadded, due, snap, log, plog, stream,
                 streak>>

Init ==
  /\ ws_clients = <<>>
  /\ ws_clients_mutex = NoTask
  /\ currentState = IDLE
  /\ vcp = FALSE
  /\ device_disconnected_sem = FALSE
  /\ bpc = [t \in Broadcasters |-> "idle"]
  /\ bit = [t \in Broadcasters |-> 0]
  /\ bmsg = [t \in Broadcasters |-> 0]
  /\ ppc = "delay"
  /\ pit = 0
  /\ hpc = "idle"
  /\ hfd = 0
  /\ nextSeq = 1
  /\ hadded = FALSE
  /\ due = {}
  /\ snap = [t \in Broadcasters |-> {}]
  /\ log = [t \in Broadcasters |-> <<>>]
  /\ plog = <<>>
  /\ stream = [c \in Clients |-> <<>>]
  /\ streak = [c \in Clients |-> 0]
  /\ content_len = 0
  /\ remaining = 0
  /\ written = 0
  /\ running = 0
  /\ bootSel = 0
  /\ ota = [p \in OtaPartitions |-> IF p = 0 THEN "image" ELSE "blank"]
  /\ dataPart = "live"
  /\ queued = FALSE
  /\ ledCall = <<>>
  /\ sessions = {}
  /\ wasQueued = FALSE
  /\ timeouts = 0
  /\ outcome = "none"
  /\ chunks = <<>>
  /\ retried = FALSE
  /\ isUSBConnected = FALSE
  /\ wire = <<>>
  /\ rxFrames = <<>>
  /\ txCalls = <<>>
  /\ txbuf = 0
  /\ stateMutex = NoTask
  /\ lpc = "delay"
  /\ serial_buffer_len = 0
  /\ rpc = "idle"
  /\ data_len = 0
  /\ copy_len = 0
  /\ rtmp = 0
  /\ maxEnd = 0

\* esp_restart(): every task and object is rebuilt from the constructors; the
\* flash keeps its contents and the boot loader starts the partition selected
Reboot ==
  /\ ws_clients' = <<>>
  /\ ws_clients_mutex' = NoTask
  /\ currentState' = IDLE
  /\ vcp' = FALSE
  /\ device_disconnected_sem' = FALSE
  /\ bpc' = [t \in Broadcasters |-> "idle"]
  /\ bit' = [t \in Broadcasters |-> 0]
  /\ bmsg' = [t \in Broadcasters |-> 0]
  /\ ppc' = "delay"
  /\ pit' = 0
  /\ hpc' = "idle"
  /\ hfd' = 0
  /\ nextSeq' = 1
  /\ hadded' = FALSE
  /\ due' = {}
  /\ snap' = [t \in Broadcasters |-> {}]
  /\ log' = [t \in Broadcasters |-> <<>>]
  /\ plog' = <<>>
  /\ stream' = [c \in Clients |-> <<>>]
  /\ streak' = [c \in Clients |-> 0]
  /\ content_len' = 0
  /\ remaining' = 0
  /\ written' = 0
  /\ running' = bootSel
  /\ queued' = FALSE
  /\ ledCall' = <<>>
  /\ sessions' = {}
  /\ wasQueued' = FALSE
  /\ timeouts' = 0
  /\ outcome' = "none"
  /\ chunks' = <<>>
  /\ retried' = FALSE
  /\ isUSBConnected' = FALSE
  /\ wire' = <<>>
  /\ rxFrames' = <<>>
  /\ txCalls' = <<>>
  /\ txbuf' = 0
  /\ stateMutex' = NoTask
  /\ lpc' = "delay"
  /\ serial_buffer_len' = 0
  /\ rpc' = "idle"
  /\ data_len' = 0
  /\ copy_len' = 0
  /\ rtmp' = 0
  /\ maxEnd' = 0
  /\ UNCHANGED <<bootSel, ota, dataPart>>

\* -------------------------------- firmware_upload_handler, fs_upload_handler
\* a handler that lets every request through
RejectedNever(authenticated) == FALSE

\* lines 105 and 388: if (!is_authenticated(req))
Rejected(authenticated) == ~authenticated

\* lines 105-112 and 388-395: the authentication check, then setState(UPLOADING)
UploadBegin(authenticated) ==
  /\ hpc = "idle"
  /\ IF ~Rejected(authenticated)
       THEN /\ currentState' = setState(currentState, UPLOADING)
            /\ ledCall' = <<currentState, UPLOADING>>
            /\ hpc' = "upload"
       ELSE /\ ledCall' = <<>>
            /\ UNCHANGED <<currentState, hpc>>
  /\ UNCHANGED upvars
  /\ UNCHANGED txvars
  /\ IF Rejected(authenticated)
       THEN UNCHANGED stateMutex
       ELSE StateMutexAvailable /\ stateMutex' = stateMutexAfterSetState(currentState)
  /\ UNCHANGED lpc
  /\ UNCHANGED rxvars
  /\ UNCHANGED <<ws_clients, ws_clients_mutex, vcp, device_disconnected_sem, bpc, bit, bmsg,
                 ppc, pit, hfd, nextSeq, hadded, due, snap, log, plog, stream,
                 streak>>

\* any of the return ESP_FAIL paths of the two handlers
UploadFail ==
  /\ hpc = "upload"
  /\ hpc' = "idle"
  /\ ledCall' = <<>>
  /\ UNCHANGED upvars
  /\ UNCHANGED txvars
  /\ UNCHANGED lockvars
  /\ UNCHANGED rxvars
  /\ UNCHANGED <<ws_clients, ws_clients_mutex, currentState, vcp, device_disconnected_sem,
                 bpc, bit, bmsg, ppc, pit, hfd, nextSeq, hadded, due, snap,
                 log, plog, stream, streak>>

\* lines 197-202 and 492-496: the image is written, esp_restart()
UploadRestart ==
  /\ hpc = "upload"
  /\ Reboot

\* ------------------------------------------------- the two upload handlers
\* results of the flash operations that the handlers tell apart from ESP_OK
ESP_ERR_INVALID_SIZE == "ESP_ERR_INVALID_SIZE"
StorageResults == {ESP_OK, ESP_FAIL}
WriteResults == {ESP_OK, ESP_FAIL, ESP_ERR_INVALID_SIZE}
UploadPositions == {"fw_loop", "fw_restart", "fs_loop", "fs_restart"}

\* a server that takes no upload after one that failed
HandlerFreeUnlessFailed == hpc = "idle" /\ outcome \in {"none", "Unauthorized"}

\* a server that starts a handler while another one runs
HandlerFreeAlways == TRUE

\* start(): one HTTP server task calls the URI handlers, one request at a time
HandlerFree == hpc = "idle"

\* an update written over the partition the device runs from
NextUpdatePartitionRunning(r) == r

\* line 117: esp_ota_get_next_update_partition(NULL), the OTA partition after the
\* running one
NextUpdatePartition(r) == 1 - r

\* a receive that always asks for a whole buffer
ToReadWholeBuffer(rem) == BUF_SZ

\* lines 150 and 449: remaining > BUF_SZ ? BUF_SZ : remaining
ToRead(rem) == IF rem > BUF_SZ THEN BUF_SZ ELSE rem

\* a loop that is left after the first look at it
LoopContinuesNever(rem) == FALSE

\* lines 148 and 447: while (remaining > 0)
LoopContinues(rem) == rem > 0

\* handlers that go on after a failed flash operation
EraseFailedNever(err) == FALSE
WriteFailedNever(err) == FALSE
EndFailedNever(err) == FALSE

\* line 426: err != ESP_OK after esp_partition_erase_range
EraseFailed(err) == err # ESP_OK

\* lines 167 and 474: err != ESP_OK after esp_ota_write, esp_partition_write
WriteFailed(err) == err # ESP_OK

\* line 182: err != ESP_OK after esp_ota_end, which verifies the image
EndFailed(err) == err # ESP_OK

\* a handler that sets the boot partition and does not look at the result
BootFailedNever(err) == FALSE

\* line 190: err != ESP_OK after esp_ota_set_boot_partition
BootFailed(err) == err # ESP_OK

\* a handler that goes on receiving after a transport error
AfterRecvErrorRetries(pos) == pos

\* lines 159-163 and 458-461: return ESP_FAIL, the server task is free again
AfterRecvError(pos) == "idle"

\* a write that always starts at the beginning of the partition
WriteOffsetZero(w) == 0

\* line 473: esp_partition_write(p, written, buf, r)
WriteOffset(w) == w

\* a write returns ESP_ERR_INVALID_SIZE exactly when it would pass the end of the
\* partition, and then writes nothing
WriteResultFor(err, off, r, size) == (err = ESP_ERR_INVALID_SIZE) <=> (off + r > size)

\* start() lines 630-649: a POST /upload or /uploadfs arrives while the server
\* task is inside an upload handler; it waits on its socket
UploadArrives ==
  /\ hpc \in UploadPositions
  /\ ~queued
  /\ queued' = TRUE
  /\ ledCall' = <<>>
  /\ UNCHANGED txvars
  /\ UNCHANGED lockvars
  /\ UNCHANGED rxvars
  /\ UNCHANGED <<chunks, retried>>
  /\ UNCHANGED <<ws_clients, ws_clients_mutex, currentState, vcp, device_disconnected_sem,
                 bpc, bit, bmsg, ppc, pit, hpc, hfd, nextSeq, hadded, due, snap, log, plog,
                 stream, streak, content_len, remaining, written, running, bootSel, ota,
                 dataPart, sessions, wasQueued, timeouts, outcome>>

\* firmware_upload_handler lines 103-147: authentication, setState(UPLOADING),
\* the update partition (found), esp_ota_begin returning err, malloc (buf)
FwBegin(authenticated, len, found, err, buf) ==
  /\ HandlerFree
  /\ wasQueued' = queued
  /\ queued' = FALSE
  /\ timeouts' = 0
  /\ IF Rejected(authenticated)
       THEN /\ outcome' = "Unauthorized"
            /\ ledCall' = <<>>
            /\ UNCHANGED <<currentState, content_len, remaining, written, ota,
                           hpc, sessions>>
       ELSE /\ currentState' = setState(currentState, UPLOADING)
            /\ ledCall' = <<currentState, UPLOADING>>
            /\ content_len' = len
            /\ written' = 0
            /\ IF ~found
                 THEN /\ outcome' = "NoPartition"
                      /\ UNCHANGED <<remaining, ota, hpc, sessions>>
                 ELSE /\ ota' = [ota EXCEPT ![NextUpdatePartition(running)] =
                                   IF err = ESP_OK THEN "blank" ELSE "dirty"]
                      /\ IF err # ESP_OK
                           THEN /\ outcome' = "BeginFailed"
                                /\ UNCHANGED <<remaining, hpc, sessions>>
                           ELSE IF ~buf
                             THEN /\ outcome' = "NoMemory"
                                  /\ UNCHANGED <<remaining, hpc, sessions>>
                             ELSE /\ outcome' = "none"
                                  /\ remaining' = len
                                  /\ hpc' = "fw_loop"
                                  /\ sessions' = sessions \cup {"Code"}
  /\ UNCHANGED txvars
  /\ IF Rejected(authenticated)
       THEN UNCHANGED stateMutex
       ELSE StateMutexAvailable /\ stateMutex' = stateMutexAfterSetState(currentState)
  /\ UNCHANGED lpc
  /\ UNCHANGED rxvars
  /\ chunks' = <<>>
  /\ retried' = FALSE
  /\ UNCHANGED <<ws_clients, ws_clients_mutex, vcp, device_disconnected_sem, bpc, bit, bmsg,
                 ppc, pit, hfd, nextSeq, hadded, due, snap, log, plog, stream, streak,
                 running, bootSel, dataPart>>

\* lines 151-157: httpd_req_recv returned HTTPD_SOCK_ERR_TIMEOUT, continue
FwRecvTimeout ==
  /\ hpc = "fw_loop"
  /\ LoopContinues(remaining)
  /\ timeouts < MaxTimeouts
  /\ timeouts' = timeouts + 1
  /\ ledCall' = <<>>
  /\ UNCHANGED txvars
  /\ UNCHANGED lockvars
  /\ UNCHANGED rxvars
  /\ retried' = (retried \/ timeouts + 1 >= 2)
  /\ UNCHANGED chunks
  /\ UNCHANGED <<ws_clients, ws_clients_mutex, currentState, vcp, device_disconnected_sem,
                 bpc, bit, bmsg, ppc, pit, hpc, hfd, nextSeq, hadded, due, snap, log, plog,
                 stream, streak, content_len, remaining, written, running, bootSel, ota,
                 dataPart, queued, sessions, wasQueued, outcome>>

\* lines 151-163: httpd_req_recv returned 0 or another error
FwRecvError ==
  /\ hpc = "fw_loop"
  /\ LoopContinues(remaining)
  /\ outcome' = "ReceiveError"
  /\ hpc' = AfterRecvError(hpc)
  /\ sessions' = sessions \ {"Code"}
  /\ ledCall' = <<>>
  /\ UNCHANGED txvars
  /\ UNCHANGED lockvars
  /\ UNCHANGED rxvars
  /\ UNCHANGED <<chunks, retried>>
  /\ UNCHANGED <<ws_clients, ws_clients_mutex, currentState, vcp, device_disconnected_sem,
                 bpc, bit, bmsg, ppc, pit, hfd, nextSeq, hadded, due, snap, log, plog,
                 stream, streak, content_len, remaining, written, running, bootSel, ota,
                 dataPart, queued, wasQueued, timeouts>>

\* lines 151-176: httpd_req_recv returned r bytes, esp_ota_write returned err
FwWrite(r, err) ==
  /\ hpc = "fw_loop"
  /\ LoopContinues(remaining)
  /\ r \in 1..ToRead(remaining)
  /\ WriteResultFor(err, written, r, OtaSize)
  /\ timeouts' = 0
  /\ written' = IF err = ESP_OK THEN written + r ELSE written
  /\ ota' = [ota EXCEPT ![NextUpdatePartition(running)] =
               IF err = ESP_OK THEN "staged" ELSE IF err = ESP_FAIL THEN "dirty" ELSE @]
  /\ IF WriteFailed(err)
       THEN /\ outcome' = "WriteFailed"
            /\ hpc' = "idle"
            /\ sessions' = sessions \ {"Code"}
            /\ UNCHANGED remaining
       ELSE /\ remaining' = remaining - r
            /\ UNCHANGED <<outcome, hpc, sessions>>
  /\ ledCall' = <<>>
  /\ UNCHANGED txvars
  /\ UNCHANGED lockvars
  /\ UNCHANGED rxvars
  /\ chunks' = IF err = ESP_OK THEN Append(chunks, <<written, r>>) ELSE chunks
  /\ UNCHANGED retried
  /\ UNCHANGED <<ws_clients, ws_clients_mutex, currentState, vcp, device_disconnected_sem,
                 bpc, bit, bmsg, ppc, pit, hfd, nextSeq, hadded, due, snap, log, plog,
                 stream, streak, content_len, running, bootSel, dataPart, queued, wasQueued>>

\* lines 179-198: esp_ota_end returned err (it fails on a handle that was never
\* written), esp_ota_set_boot_partition returned berr
FwEnd(err, berr) ==
  /\ hpc = "fw_loop"
  /\ ~LoopContinues(remaining)
  /\ err = ESP_OK => written > 0
  /\ sessions' = sessions \ {"Code"}
  /\ IF EndFailed(err)
       THEN /\ outcome' = "EndFailed"
            /\ hpc' = "idle"
            /\ UNCHANGED <<ota, bootSel>>
       ELSE /\ ota' = [ota EXCEPT ![NextUpdatePartition(running)] =
                         IF err = ESP_OK THEN "image" ELSE @]
            /\ bootSel' = IF berr = ESP_OK THEN NextUpdatePartition(running) ELSE bootSel
            /\ IF BootFailed(berr)
                 THEN /\ outcome' = "SetBootFailed"
                      /\ hpc' = "idle"
                 ELSE /\ outcome' = "Complete"
                      /\ hpc' = "fw_restart"
  /\ ledCall' = <<>>
  /\ UNCHANGED txvars
  /\ UNCHANGED lockvars
  /\ UNCHANGED rxvars
  /\ UNCHANGED <<chunks, retried>>
  /\ UNCHANGED <<ws_clients, ws_clients_mutex, currentState, vcp, device_disconnected_sem,
                 bpc, bit, bmsg, ppc, pit, hfd, nextSeq, hadded, due, snap, log, plog,
                 stream, streak, content_len, remaining, written, running, dataPart, queued,
                 wasQueued, timeouts>>

\* lines 200-202: vTaskDelay, esp_restart()
FwRestart ==
  /\ hpc = "fw_restart"
  /\ Reboot

\* fs_upload_handler lines 386-445: authentication, setState(UPLOADING), the
\* LittleFS partition (found), the size checks, unmount,
\* esp_partition_erase_range returning err, malloc (buf)
FsBegin(authenticated, len, found, err, buf) ==
  /\ HandlerFree
  /\ wasQueued' = queued
  /\ queued' = FALSE
  /\ timeouts' = 0
  /\ IF Rejected(authenticated)
       THEN /\ outcome' = "Unauthorized"
            /\ ledCall' = <<>>
            /\ UNCHANGED <<currentState, content_len, remaining, written, dataPart,
                           hpc, sessions>>
       ELSE /\ currentState' = setState(currentState, UPLOADING)
            /\ ledCall' = <<currentState, UPLOADING>>
            /\ content_len' = len
            /\ written' = 0
            /\ IF ~found
                 THEN /\ outcome' = "NoPartition"
                      /\ UNCHANGED <<remaining, dataPart, hpc, sessions>>
                 ELSE IF len = 0
                 THEN /\ outcome' = "Empty"
                      /\ UNCHANGED <<remaining, dataPart, hpc, sessions>>
                 ELSE IF len > FsSize
                 THEN /\ outcome' = "TooLarge"
                      /\ UNCHANGED <<remaining, dataPart, hpc, sessions>>
                 ELSE /\ dataPart' = IF err = ESP_OK THEN "blank" ELSE "dirty"
                      /\ IF EraseFailed(err)
                           THEN /\ outcome' = "EraseFailed"
                                /\ UNCHANGED <<remaining, hpc, sessions>>
                           ELSE IF ~buf
                             THEN /\ outcome' = "NoMemory"
                                  /\ UNCHANGED <<remaining, hpc, sessions>>
                             ELSE /\ outcome' = "none"
                                  /\ remaining' = len
                                  /\ hpc' = "fs_loop"
                                  /\ sessions' = sessions \cup {"Data"}
  /\ UNCHANGED txvars
  /\ IF Rejected(authenticated)
       THEN UNCHANGED stateMutex
       ELSE StateMutexAvailable /\ stateMutex' = stateMutexAfterSetState(currentState)
  /\ UNCHANGED lpc
  /\ UNCHANGED rxvars
  /\ chunks' = <<>>
  /\ retried' = FALSE
  /\ UNCHANGED <<ws_clients, ws_clients_mutex, vcp, device_disconnected_sem, bpc, bit, bmsg,
                 ppc, pit, hfd, nextSeq, hadded, due, snap, log, plog, stream, streak,
                 running, bootSel, ota>>

\* lines 450-457: httpd_req_recv returned HTTPD_SOCK_ERR_TIMEOUT, continue
FsRecvTimeout ==
  /\ hpc = "fs_loop"
  /\ LoopContinues(remaining)
  /\ timeouts < MaxTimeouts
  /\ timeouts' = timeouts + 1
  /\ ledCall' = <<>>
  /\ UNCHANGED txvars
  /\ UNCHANGED lockvars
  /\ UNCHANGED rxvars
  /\ retried' = (retried \/ timeouts + 1 >= 2)
  /\ UNCHANGED chunks
  /\ UNCHANGED <<ws_clients, ws_clients_mutex, currentState, vcp, device_disconnected_sem,
                 bpc, bit, bmsg, ppc, pit, hpc, hfd, nextSeq, hadded, due, snap, log, plog,
                 stream, streak, content_len, remaining, written, running, bootSel, ota,
                 dataPart, queued, sessions, wasQueued, outcome>>

\* lines 450-462: httpd_req_recv returned 0 or another error
FsRecvError ==
  /\ hpc = "fs_loop"
  /\ LoopContinues(remaining)
  /\ outcome' = "ReceiveError"
  /\ hpc' = AfterRecvError(hpc)
  /\ sessions' = sessions \ {"Data"}
  /\ ledCall' = <<>>
  /\ UNCHANGED txvars
  /\ UNCHANGED lockvars
  /\ UNCHANGED rxvars
  /\ UNCHANGED <<chunks, retried>>
  /\ UNCHANGED <<ws_clients, ws_clients_mutex, currentState, vcp, device_disconnected_sem,
                 bpc, bit, bmsg, ppc, pit, hfd, nextSeq, hadded, due, snap, log, plog,
                 stream, streak, content_len, remaining, written, running, bootSel, ota,
                 dataPart, queued, wasQueued, timeouts>>

\* lines 450-484: httpd_req_recv returned r bytes; the bounds guard; then
\* esp_partition_write returned err. Bytes programmed into flash that was not
\* erased do not read back as written.
FsWrite(r, err) ==
  /\ hpc = "fs_loop"
  /\ LoopContinues(remaining)
  /\ r \in 1..ToRead(remaining)
  /\ WriteResultFor(err, written, r, FsSize)
  /\ timeouts' = 0
  /\ IF written + r > FsSize
       THEN /\ outcome' = "TooLarge"
            /\ hpc' = "idle"
            /\ sessions' = sessions \ {"Data"}
            /\ UNCHANGED <<remaining, written, dataPart, chunks>>
       ELSE /\ dataPart' = IF err = ESP_OK /\ dataPart \in {"blank", "staged"}
                             THEN "staged" ELSE "dirty"
            /\ chunks' = IF err = ESP_OK THEN Append(chunks, <<WriteOffset(written), r>>)
                                         ELSE chunks
            /\ IF WriteFailed(err)
                 THEN /\ outcome' = "WriteFailed"
                      /\ hpc' = "idle"
                      /\ sessions' = sessions \ {"Data"}
                      /\ UNCHANGED <<remaining, written>>
                 ELSE /\ written' = written + r
                      /\ remaining' = remaining - r
                      /\ UNCHANGED <<outcome, hpc, sessions>>
  /\ ledCall' = <<>>
  /\ UNCHANGED txvars
  /\ UNCHANGED lockvars
  /\ UNCHANGED rxvars
  /\ UNCHANGED retried
  /\ UNCHANGED <<ws_clients, ws_clients_mutex, currentState, vcp, device_disconnected_sem,
                 bpc, bit, bmsg, ppc, pit, hfd, nextSeq, hadded, due, snap, log, plog,
                 stream, streak, content_len, running, bootSel, ota, queued, wasQueued>>

\* lines 487-493: the loop has ended, the region holds the image, respond OK
FsEnd ==
  /\ hpc = "fs_loop"
  /\ ~LoopContinues(remaining)
  /\ dataPart' = IF dataPart = "staged" THEN "live" ELSE dataPart
  /\ outcome' = "Complete"
  /\ hpc' = "fs_restart"
  /\ sessions' = sessions \ {"Data"}
  /\ ledCall' = <<>>
  /\ UNCHANGED txvars
  /\ UNCHANGED lockvars
  /\ UNCHANGED rxvars
  /\ UNCHANGED <<chunks, retried>>
  /\ UNCHANGED <<ws_clients, ws_clients_mutex, currentState, vcp, device_disconnected_sem,
                 bpc, bit, bmsg, ppc, pit, hfd, nextSeq, hadded, due, snap, log, plog,
                 stream, streak, content_len, remaining, written, running, bootSel, ota,
                 queued, wasQueued, timeouts>>

\* lines 495-496: vTaskDelay, esp_restart()
FsRestart ==
  /\ hpc = "fs_restart"
  /\ Reboot

\* ------------------------------ HttpServer::websocket_handler (frame path)
HTTPD_WS_TYPE_TEXT == "HTTPD_WS_TYPE_TEXT"
HTTPD_WS_TYPE_BINARY == "HTTPD_WS_TYPE_BINARY"
FrameTypes == {HTTPD_WS_TYPE_TEXT, HTTPD_WS_TYPE_BINARY}

\* payloads of the frames, 0 for a frame without payload
FramePayloads == 0..MaxFrames

\* line 359: ws_pkt.type == HTTPD_WS_TYPE_TEXT
Forwarded(type) == type = HTTPD_WS_TYPE_TEXT

\* usb-handler.cpp line 194: if (vcp)
HandleTested(handle) == handle

\* lines 301-370: a frame of descriptor fd (a socket that did the handshake)
\* reaches the handler: the status is sent to the client when it changed,
\* httpd_ws_recv_frame returns ret1, calloc (buf), the payload is received (ret2),
\* a text frame is passed to UsbHandler::tx_blocking (usb-handler.cpp lines
\* 192-199), which hands it to the device when there is one
WsFrame(fd, type, payload, ret1, buf, ret2) ==
  /\ hpc = "idle"
  /\ fd \in Range(ws_clients)
  /\ Len(rxFrames) < MaxFrames
  /\ isUSBConnected' = vcp
  /\ LET got == ret1 = ESP_OK /\ payload > 0 /\ buf /\ ret2 = ESP_OK IN
       /\ rxFrames' = IF got THEN Append(rxFrames, payload) ELSE rxFrames
       /\ txCalls' = IF got /\ Forwarded(type) THEN Append(txCalls, payload) ELSE txCalls
       /\ IF got /\ Forwarded(type) /\ HandleTested(vcp)
            THEN hpc' = "tx_use" /\ txbuf' = payload
            ELSE UNCHANGED <<hpc, txbuf>>
  /\ ledCall' = <<>>
  /\ UNCHANGED wire
  /\ UNCHANGED upvars
  /\ UNCHANGED lockvars
  /\ UNCHANGED rxvars
  /\ UNCHANGED <<ws_clients, ws_clients_mutex, currentState, vcp, device_disconnected_sem,
                 bpc, bit, bmsg, ppc, pit, hfd, nextSeq, hadded, due, snap, log, plog,
                 stream, streak>>

\* what a call of vcp->tx_blocking can do: the device took the bytes, the call
\* returned an error, the program was aborted
TxOutcomes == {"sent", "failed", "abort"}

\* usb-handler.cpp line 196 and http-server.cpp lines 364-369: vcp->tx_blocking
\* runs on the handle tested at line 194, then the handler frees the buffer and
\* returns. When usb_loop has reset the handle in between, the call dereferences
\* a released handle (undefined behaviour): it may appear to work, fail or abort.
TxUse(res) ==
  /\ hpc = "tx_use"
  /\ res = "abort" => ~vcp
  /\ IF res = "abort"
       THEN Reboot
       ELSE /\ wire' = IF res = "sent" THEN Append(wire, txbuf) ELSE wire
            /\ txbuf' = 0
            /\ hpc' = "idle"
            /\ ledCall' = <<>>
            /\ UNCHANGED <<isUSBConnected, rxFrames, txCalls>>
            /\ UNCHANGED upvars
            /\ UNCHANGED lockvars
            /\ UNCHANGED rxvars
            /\ UNCHANGED <<ws_clients, ws_clients_mutex, currentState, vcp,
                           device_disconnected_sem, bpc, bit, bmsg, ppc, pit, hfd, nextSeq,
                           hadded, due, snap, log, plog, stream, streak>>

\* ------------------------------------------------------ UsbHandler::usb_loop
\* lines 162-169: VCP::open returned a device (opened) or nullptr (retry)
UsbOpen(opened) ==
  /\ ~vcp
  /\ vcp' = opened
  /\ ledCall' = <<>>
  /\ UNCHANGED upvars
  /\ UNCHANGED txvars
  /\ UNCHANGED lockvars
  /\ UNCHANGED rxvars
  /\ UNCHANGED <<ws_clients, ws_clients_mutex, currentState, device_disconnected_sem,
                 bpc, bit, bmsg, ppc, pit, hpc, hfd, nextSeq, hadded, due, snap,
                 log, plog, stream, streak>>

\* handle_event, lines 72-75: CDC_ACM_HOST_DEVICE_DISCONNECTED
DeviceDisconnected ==
  /\ vcp
  /\ ~device_disconnected_sem
  /\ device_disconnected_sem' = TRUE
  /\ ledCall' = <<>>
  /\ UNCHANGED upvars
  /\ UNCHANGED txvars
  /\ UNCHANGED lockvars
  /\ UNCHANGED rxvars
  /\ UNCHANGED <<ws_clients, ws_clients_mutex, currentState, vcp, bpc, bit, bmsg, ppc, pit,
                 hpc, hfd, nextSeq, hadded, due, snap, log, plog, stream, streak>>

\* a cleanup that keeps the handle
vcp_resetKeeps(handle) == handle

\* line 186: vcp.reset() leaves nullptr
vcp_reset(handle) == FALSE

\* lines 183-188: the semaphore is taken, vcp.reset(), serial_buffer_len = 0
UsbCleanup ==
  /\ vcp
  /\ device_disconnected_sem
  /\ device_disconnected_sem' = FALSE
  /\ vcp' = vcp_reset(vcp)
  /\ serial_buffer_len' = 0
  /\ ledCall' = <<>>
  /\ UNCHANGED upvars
  /\ UNCHANGED txvars
  /\ UNCHANGED lockvars
  /\ UNCHANGED <<rpc, data_len, copy_len, rtmp, maxEnd>>
  /\ UNCHANGED <<ws_clients, ws_clients_mutex, currentState, bpc, bit, bmsg, ppc, pit,
                 hpc, hfd, nextSeq, hadded, due, snap, log, plog, stream, streak>>

\* lines 162-179: VCP::open returned a device and an ESP_ERROR_CHECK of the line
\* setup failed: abort(), the device restarts
UsbSetupAbort ==
  /\ ~vcp
  /\ Reboot

\* ---------------------------------------------------- UsbHandler::handle_rx
\* a copy that is never cut to the buffer
TruncatedNever(n) == n

\* line 44: serial_buffer_len + copy_len > sizeof(serial_buffer)
BufferFull(len, n) == len + n > SerialBufferSize

\* line 48: data_len < sizeof(serial_buffer) ? data_len : sizeof(serial_buffer)
Truncated(n) == IF n < SerialBufferSize THEN n ELSE SerialBufferSize

Max(a, b) == IF a > b THEN a ELSE b

\* usb_loop lines 156-157, handle_rx lines 36-43: the driver of the open device
\* hands a chunk of n bytes to the callback
RxCall(n) ==
  /\ vcp
  /\ rpc = "idle"
  /\ rpc' = "check"
  /\ data_len' = n
  /\ copy_len' = n
  /\ ledCall' = <<>>
  /\ UNCHANGED upvars
  /\ UNCHANGED txvars
  /\ UNCHANGED lockvars
  /\ UNCHANGED <<serial_buffer_len, rtmp, maxEnd>>
  /\ UNCHANGED <<ws_clients, ws_clients_mutex, currentState, vcp, device_disconnected_sem,
                 bpc, bit, bmsg, ppc, pit, hpc, hfd, nextSeq, hadded, due, snap, log, plog,
                 stream, streak>>

\* lines 44-49: the chunk does not fit behind the buffered bytes: reset, truncate
RxCheck ==
  /\ rpc = "check"
  /\ rpc' = "copy"
  /\ IF BufferFull(serial_buffer_len, copy_len)
       THEN /\ serial_buffer_len' = 0
            /\ copy_len' = Truncated(data_len)
       ELSE UNCHANGED <<serial_buffer_len, copy_len>>
  /\ ledCall' = <<>>
  /\ UNCHANGED upvars
  /\ UNCHANGED txvars
  /\ UNCHANGED lockvars
  /\ UNCHANGED <<data_len, rtmp, maxEnd>>
  /\ UNCHANGED <<ws_clients, ws_clients_mutex, currentState, vcp, device_disconnected_sem,
                 bpc, bit, bmsg, ppc, pit, hpc, hfd, nextSeq, hadded, due, snap, log, plog,
                 stream, streak>>

\* line 50: memcpy(serial_buffer + serial_buffer_len, data, copy_len)
RxCopy ==
  /\ rpc = "copy"
  /\ rpc' = "load"
  /\ maxEnd' = Max(maxEnd, serial_buffer_len + copy_len)
  /\ ledCall' = <<>>
  /\ UNCHANGED upvars
  /\ UNCHANGED txvars
  /\ UNCHANGED lockvars
  /\ UNCHANGED <<serial_buffer_len, data_len, copy_len, rtmp>>
  /\ UNCHANGED <<ws_clients, ws_clients_mutex, currentState, vcp, device_disconnected_sem,
                 bpc, bit, bmsg, ppc, pit, hpc, hfd, nextSeq, hadded, due, snap, log, plog,
                 stream, streak>>

\* line 51, first half: serial_buffer_len is loaded (usb_loop line 188 writes it
\* without the mutex, so the load and the store are separate steps)
RxLoad ==
  /\ rpc = "load"
  /\ rpc' = "store"
  /\ rtmp' = serial_buffer_len
  /\ ledCall' = <<>>
  /\ UNCHANGED upvars
  /\ UNCHANGED txvars
  /\ UNCHANGED lockvars
  /\ UNCHANGED <<serial_buffer_len, data_len, copy_len, maxEnd>>
  /\ UNCHANGED <<ws_clients, ws_clients_mutex, currentState, vcp, device_disconnected_sem,
                 bpc, bit, bmsg, ppc, pit, hpc, hfd, nextSeq, hadded, due, snap, log, plog,
                 stream, streak>>

\* lines 51-54: the sum is stored, the mutex given, return true
RxStore ==
  /\ rpc = "store"
  /\ rpc' = "idle"
  /\ serial_buffer_len' = rtmp + copy_len
  /\ data_len' = 0
  /\ copy_len' = 0
  /\ rtmp' = 0
  /\ ledCall' = <<>>
  /\ UNCHANGED upvars
  /\ UNCHANGED txvars
  /\ UNCHANGED lockvars
  /\ UNCHANGED maxEnd
  /\ UNCHANGED <<ws_clients, ws_clients_mutex, currentState, vcp, device_disconnected_sem,
                 bpc, bit, bmsg, ppc, pit, hpc, hfd, nextSeq, hadded, due, snap, log, plog,
                 stream, streak>>

\* ------------------------------------------------ callers of setState
\* wifi.cpp lines 56-59: WIFI_EVENT_STA_DISCONNECTED
WifiDisconnected ==
  /\ currentState' = setState(currentState, WIFI_DISCONNECTED)
  /\ ledCall' = <<currentState, WIFI_DISCONNECTED>>
  /\ UNCHANGED upvars
  /\ UNCHANGED txvars
  /\ StateMutexAvailable
  /\ stateMutex' = stateMutexAfterSetState(currentState)
  /\ UNCHANGED lpc
  /\ UNCHANGED rxvars
  /\ UNCHANGED <<ws_clients, ws_clients_mutex, vcp, device_disconnected_sem, bpc, bit, bmsg,
                 ppc, pit, hpc, hfd, nextSeq, hadded, due, snap, log, plog,
                 stream, streak>>

\* wifi.cpp lines 61-65: IP_EVENT_STA_GOT_IP
WifiGotIp ==
  /\ currentState' = setState(currentState, IDLE)
  /\ ledCall' = <<currentState, IDLE>>
  /\ UNCHANGED upvars
  /\ UNCHANGED txvars
  /\ StateMutexAvailable
  /\ stateMutex' = stateMutexAfterSetState(currentState)
  /\ UNCHANGED lpc
  /\ UNCHANGED rxvars
  /\ UNCHANGED <<ws_clients, ws_clients_mutex, vcp, device_disconnected_sem, bpc, bit, bmsg,
                 ppc, pit, hpc, hfd, nextSeq, hadded, due, snap, log, plog,
                 stream, streak>>

\* the application's policy for unrecoverable conditions: setState(ERROR)
CallerSetsFault ==
  /\ currentState' = setState(currentState, ERROR)
  /\ ledCall' = <<currentState, ERROR>>
  /\ UNCHANGED upvars
  /\ UNCHANGED txvars
  /\ StateMutexAvailable
  /\ stateMutex' = stateMutexAfterSetState(currentState)
  /\ UNCHANGED lpc
  /\ UNCHANGED rxvars
  /\ UNCHANGED <<ws_clients, ws_clients_mutex, vcp, device_disconnected_sem, bpc, bit, bmsg,
                 ppc, pit, hpc, hfd, nextSeq, hadded, due, snap, log, plog,
                 stream, streak>>

\* ------------------------------------------------------------ specification
BridgeNext ==
  \/ \E t \in Broadcasters : BroadcastCall(t)
  \/ \E t \in Broadcasters : BroadcastTake(t)
  \/ \E t \in Broadcasters, res \in SendResults : BroadcastSend(t, res)
  \/ \E t \in Broadcasters : BroadcastLoopEnd(t)
  \/ \E t \in Broadcasters : BroadcastGive(t)
  \/ PingTake
  \/ \E res \in SendResults : PingSend(res)
  \/ PingLoopEnd
  \/ PingGive
  \/ \E fd \in Clients : SubTake(fd)
  \/ SubCrit
  \/ SubGive
  \/ \E fd \in Clients : CloseTake(fd)
  \/ CloseCrit
  \/ CloseGive
  \/ \E o \in BOOLEAN : UsbOpen(o)
  \/ DeviceDisconnected
  \/ UsbCleanup

Spec == Init /\ [][BridgeNext]_vars
\* the indicator with every caller of setState, the registry changing through
\* subscribe, close and the heartbeat
LedNext ==
  \/ PingTake
  \/ \E res \in SendResults : PingSend(res)
  \/ PingLoopEnd
  \/ PingGive
  \/ \E fd \in Clients : SubTake(fd)
  \/ SubCrit
  \/ SubGive
  \/ \E fd \in Clients : CloseTake(fd)
  \/ CloseCrit
  \/ CloseGive
  \/ \E a \in BOOLEAN : UploadBegin(a)
  \/ UploadFail
  \/ UploadRestart
  \/ \E o \in BOOLEAN : UsbOpen(o)
  \/ DeviceDisconnected
  \/ UsbCleanup
  \/ WifiDisconnected
  \/ WifiGotIp
  \/ CallerSetsFault

SpecLed == Init /\ [][LedNext]_vars

\* the two upload handlers in the server task, the requests that arrive while
\* one of them runs, the flash and the restart
UpdateNext ==
  \/ \E a \in BOOLEAN, len \in 0..MaxLen, f \in BOOLEAN, err \in StorageResults,
        buf \in BOOLEAN : FwBegin(a, len, f, err, buf)
  \/ FwRecvTimeout
  \/ FwRecvError
  \/ \E r \in 1..BUF_SZ, err \in WriteResults : FwWrite(r, err)
  \/ \E err \in StorageResults, berr \in StorageResults : FwEnd(err, berr)
  \/ FwRestart
  \/ \E a \in BOOLEAN, len \in 0..MaxLen, f \in BOOLEAN, err \in StorageResults,
        buf \in BOOLEAN : FsBegin(a, len, f, err, buf)
  \/ FsRecvTimeout
  \/ FsRecvError
  \/ \E r \in 1..BUF_SZ, err \in WriteResults : FsWrite(r, err)
  \/ FsEnd
  \/ FsRestart
  \/ UploadArrives

SpecUpdate == Init /\ [][UpdateNext]_vars

\* the frames of the clients with the subscriptions and the serial device
TxNext ==
  \/ \E fd \in Clients, type \in FrameTypes, payload \in FramePayloads,
        ret1 \in StorageResults, buf \in BOOLEAN, ret2 \in StorageResults :
          WsFrame(fd, type, payload, ret1, buf, ret2)
  \/ \E fd \in Clients : SubTake(fd)
  \/ SubCrit
  \/ SubGive
  \/ \E fd \in Clients : CloseTake(fd)
  \/ CloseCrit
  \/ CloseGive
  \/ \E o \in BOOLEAN : UsbOpen(o)
  \/ DeviceDisconnected
  \/ UsbCleanup
  \/ \E res \in TxOutcomes : TxUse(res)

SpecTx == Init /\ [][TxNext]_vars

\* the two mutexes with every task that takes one: the status broadcast, the
\* heartbeat, subscribe and close in the server task, led_task and the callers of
\* setState outside the server task
LockNext ==
  \/ BroadcastCall("conn")
  \/ BroadcastTake("conn")
  \/ \E res \in SendResults : BroadcastSend("conn", res)
  \/ BroadcastLoopEnd("conn")
  \/ BroadcastGive("conn")
  \/ PingTake
  \/ \E res \in SendResults : PingSend(res)
  \/ PingLoopEnd
  \/ PingGive
  \/ \E fd \in Clients : SubTake(fd)
  \/ SubCrit
  \/ SubGive
  \/ \E fd \in Clients : CloseTake(fd)
  \/ CloseCrit
  \/ CloseGive
  \/ GetStateTake
  \/ GetStateGive
  \/ WifiDisconnected
  \/ WifiGotIp
  \/ CallerSetsFault

SpecLock == Init /\ [][LockNext]_vars

\* usb_loop with the data callback of the driver
UsbNext ==
  \/ \E o \in BOOLEAN : UsbOpen(o)
  \/ UsbSetupAbort
  \/ DeviceDisconnected
  \/ UsbCleanup
  \/ \E n \in 0..MaxDataLen : RxCall(n)
  \/ RxCheck
  \/ RxCopy
  \/ RxLoad
  \/ RxStore

SpecUsb == Init /\ [][UsbNext]_vars

\* usb_loop runs: VCP::open returns, a given semaphore is taken
FairUsb == SpecUsb /\ WF_vars(\E o \in BOOLEAN : UsbOpen(o)) /\ WF_vars(UsbCleanup)


\* ------------------------------------------------------------------ claims
Registry == Range(ws_clients)
Holding(t) == bpc[t] \in {"loop", "give"}
Entries(t) == {log[t][i] : i \in 1..Len(log[t])}
IsFatal(res) == res # ESP_OK /\ res # ESP_ERR_NO_MEM

\* C1: while a broadcast has not returned, every client whose send in it returned
\* ESP_ERR_NO_MEM is still registered and every client whose send returned another
\* error is not; a client with any number of consecutive ESP_ERR_NO_MEM data sends
\* is registered.
C1_BackpressureKeepsFatalRemoves ==
  /\ \A t \in Broadcasters : Holding(t) =>
       \A e \in Entries(t) :
         /\ e[2] = ESP_ERR_NO_MEM => e[1] \in Registry
         /\ IsFatal(e[2]) => e[1] \notin Registry
  /\ \A c \in Clients : streak[c] > 0 => c \in Registry

C1_Witness ==
  /\ bpc["rx"] = "give"
  /\ \E c, d \in Clients :
       /\ streak[c] >= 2
       /\ c \in Registry
       /\ <<c, ESP_ERR_NO_MEM, bmsg["rx"]>> \in Entries("rx")
       /\ <<d, ESP_FAIL, bmsg["rx"]>> \in Entries("rx")
       /\ d \notin Registry

\* C2 as stated, a subscribe counted as returned as soon as it has inserted the
\* client: every client a data broadcast sends to was already registered when
\* broadcast() was called.
C2_NoSendStartedBeforeSubscribeReturned ==
  \A e \in Entries("rx") : e[1] \in due

\* C2 amended: every client a broadcast sends to was in the registry when that
\* broadcast acquired the registry mutex, so its insertion had completed.
C2_NoSendToLaterInsertion ==
  \A t \in Broadcasters : Holding(t) => \A e \in Entries(t) : e[1] \in snap[t]

C2_Witness ==
  /\ bpc["rx"] = "loop"
  /\ hpc = "idle"
  /\ \E c \in Clients :
       /\ <<c, ESP_OK, bmsg["rx"]>> \in Entries("rx")
       /\ c \notin due
       /\ c \in snap["rx"]

\* C3: when the loop of a data broadcast has ended, every client that was
\* registered when the call started (so every client whose subscribe had returned)
\* and stayed registered was sent the chunk exactly once, and no client is ever
\* sent it twice.
C3_ExactlyOneSend ==
  /\ \A c \in Clients : Count(log["rx"], c) <= 1
  /\ bpc["rx"] = "give" => \A c \in due : Count(log["rx"], c) = 1

C3_Witness ==
  /\ bpc["rx"] = "give"
  /\ Cardinality(due) = 3
  /\ \E c \in due : <<c, ESP_FAIL, bmsg["rx"]>> \in Entries("rx")
  /\ \A c \in due : Count(log["rx"], c) = 1

\* C4: every data send carries a chunk number greater than every chunk number
\* sent to that client before, whatever the connection-status broadcasts do.
C4_PerClientOrder ==
  [][Len(log'["rx"]) = Len(log["rx"]) + 1 =>
       LET e == log'["rx"][Len(log'["rx"])] IN
         \A i \in 1..Len(stream[e[1]]) : stream[e[1]][i] < e[3]]_vars

C4_Witness ==
  \E c \in Clients :
    /\ stream[c] = <<1, 2>>
    /\ bpc["conn"] = "loop"
    /\ <<c, ESP_OK, 0>> \in Entries("conn")

\* C5: while a broadcast holds the registry, the registry is the one it found
\* minus exactly the clients whose own send failed fatally, in the same order;
\* when its loop has ended every client it found was sent the chunk once.
C5_OutcomesAreIndependent ==
  \A t \in Broadcasters : Holding(t) =>
    /\ Registry = snap[t] \ {e[1] : e \in {x \in Entries(t) : IsFatal(x[2])}}
    /\ bpc[t] = "give" => \A c \in snap[t] : Count(log[t], c) = 1

C5_Witness ==
  /\ bpc["rx"] = "give"
  /\ ws_clients = <<1, 2, 3>>
  /\ log["rx"] = << <<1, ESP_OK, bmsg["rx"]>>, <<2, ESP_ERR_NO_MEM, bmsg["rx"]>>,
                    <<3, ESP_OK, bmsg["rx"]>> >>

\* C6: no descriptor occurs twice in the registry, and the critical section of a
\* subscribe whose descriptor is present leaves the registry as it was.
NoDuplicates == \A i, j \in 1..Len(ws_clients) : ws_clients[i] = ws_clients[j] => i = j

C6_RegistryUnique ==
  /\ []NoDuplicates
  /\ [][(hpc = "sub_crit" /\ hpc' = "sub_give" /\ hfd \in Registry) =>
          ws_clients' = ws_clients]_vars

C6_Witness ==
  /\ hpc = "sub_give"
  /\ ~hadded
  /\ hfd \in Registry
  /\ Len(ws_clients) = 3

\* the outcome the priority rule grants to a request for a state below Updating
Granted(cur, req) == IF cur \in {UPLOADING, ERROR} THEN cur ELSE req

\* C7: the critical section of a subscribe that inserts into an empty registry
\* makes the indicator TerminalActive unless it shows Updating or Fault, which stay.
C7_FirstSubscribeRaisesIndicator ==
  [][(hpc = "sub_crit" /\ hpc' = "sub_give" /\ Len(ws_clients) = 0 /\ Len(ws_clients') = 1) =>
       currentState' = Granted(currentState, WEB_TERMINAL_ACTIVE)]_vars

C7_Witness ==
  /\ hpc = "sub_give"
  /\ hadded
  /\ Len(ws_clients) = 1
  /\ currentState = WEB_TERMINAL_ACTIVE

\* C8: the critical section of an unsubscribe that removes the last client asks
\* for SerialConnected when the serial device is attached at that moment and for
\* Idle otherwise; every other unsubscribe leaves the indicator as it was.
C8_LastUnsubscribeRevertsIndicator ==
  [][(hpc = "close_crit" /\ hpc' = "close_give") =>
       IF hfd \in Registry /\ Len(ws_clients) = 1
         THEN currentState' = Granted(currentState, IF vcp THEN USB_CONNECTED ELSE IDLE)
         ELSE currentState' = currentState]_vars

C8_Witness ==
  /\ hpc = "close_give"
  /\ Len(ws_clients) = 0
  /\ vcp
  /\ currentState = USB_CONNECTED

\* C9: during a heartbeat round every client whose PING send returned
\* ESP_ERR_NO_MEM is still registered and every client whose send returned
\* another error is not.
PingEntries == {plog[i] : i \in 1..Len(plog)}

C9_HeartbeatBackpressureKeeps ==
  ppc \in {"loop", "give"} =>
    \A e \in PingEntries :
      /\ e[2] = ESP_ERR_NO_MEM => e[1] \in Registry
      /\ IsFatal(e[2]) => e[1] \notin Registry

\* a task that holds the registry keeps running until it has given it back
BroadcastRun(t) ==
  \/ \E res \in SendResults : BroadcastSend(t, res)
  \/ BroadcastLoopEnd(t)
  \/ BroadcastGive(t)

FairSpec == Spec /\ \A t \in Broadcasters : WF_vars(BroadcastRun(t))

\* C10: a broadcast makes at most one send per client it found, never more sends
\* than it found clients, and once it holds the registry it returns, whatever the
\* send results are.
C10_BroadcastNeverWaits ==
  /\ [](\A t \in Broadcasters : Holding(t) =>
          /\ Len(log[t]) <= Cardinality(snap[t])
          /\ \A c \in Clients : Count(log[t], c) <= 1)
  /\ \A t \in Broadcasters : (bpc[t] = "loop") ~> (bpc[t] = "idle")

C10_Witness ==
  /\ bpc["rx"] = "idle"
  /\ nextSeq = 3
  /\ \E c \in Clients : streak[c] = 2 /\ stream[c] = <<1, 2>>
  /\ \E d \in Clients : streak[d] = 0 /\ stream[d] = <<1, 2>>

\* C11: once the indicator shows Fault, every step that is not the restart of the
\* device leaves it Fault, whatever state a caller asks for; a setState call made
\* while it showed Fault left it Fault.
C11_FaultLatched ==
  /\ [](ledCall # <<>> => (ledCall[1] = ERROR => currentState = ERROR))
  /\ [][(currentState = ERROR /\ ~(UploadRestart \/ FwRestart \/ FsRestart)) =>
          currentState' = ERROR]_vars

C11_Witness ==
  /\ currentState = ERROR
  /\ ledCall = <<ERROR, UPLOADING>>

\* the fixed priority order: Fault, then Updating, then the remaining states
Rank(st) == IF st = ERROR THEN 2 ELSE IF st = UPLOADING THEN 1 ELSE 0

\* C12: after every setState call the state is the one it was before when that
\* outranks the state asked for, and the state asked for otherwise.
C12_PriorityDecides ==
  ledCall # <<>> =>
    currentState = IF Rank(ledCall[1]) > Rank(ledCall[2]) THEN ledCall[1] ELSE ledCall[2]

C12_Witness ==
  /\ ledCall = <<UPLOADING, WEB_TERMINAL_ACTIVE>>
  /\ currentState = UPLOADING
  /\ Len(ws_clients) = 1

C14_OversizeRejectedAtBegin ==
  /\ hpc = "fw_loop" => content_len <= OtaSize
  /\ hpc = "fs_loop" => content_len <= FsSize

\* C15: while a Data session receives, the region is erased or holds only what
\* the session wrote after the erase; a failed erase ends the request with no
\* byte written.
C15_EraseBeforeWrite ==
  /\ hpc = "fs_loop" => dataPart \in {"blank", "staged"}
  /\ hpc = "fs_loop" /\ written > 0 => dataPart = "staged"
  /\ outcome = "EraseFailed" => hpc = "idle" /\ written = 0 /\ dataPart = "dirty"

C15_Witness ==
  /\ hpc = "fs_loop"
  /\ written > 0
  /\ remaining > 0
  /\ dataPart = "staged"

\* C16: the partition the device runs from always holds its image, and no step
\* changes the contents of that partition.
C16_ActiveRegionUntouched ==
  /\ [](ota[running] = "image")
  /\ [][ota'[running] = ota[running]]_vars

C16_Witness ==
  /\ running = 1
  /\ outcome = "ReceiveError"
  /\ ota = [p \in OtaPartitions |-> IF p = 1 THEN "image" ELSE "staged"]

\* C17: the bytes written never exceed the declared length nor the capacity of the
\* region of the session, for every sequence of receive results.
C17_WrittenWithinBounds ==
  /\ written <= content_len
  /\ hpc \in {"fw_loop", "fw_restart"} => written <= OtaSize
  /\ hpc \in {"fs_loop", "fs_restart"} => written <= FsSize

C17_Witness ==
  /\ hpc = "fw_loop"
  /\ written = OtaSize
  /\ content_len > OtaSize
  /\ timeouts > 0

C19_CompleteOnlyWhenAllWritten ==
  /\ [](outcome = "Complete" => written = content_len)
  /\ [][(hpc \in {"fw_loop", "fs_loop"} /\ hpc' # hpc /\ written < content_len) =>
          (hpc' = "idle" /\ bootSel' = bootSel /\ outcome' # "Complete")]_vars

C19_Witness ==
  /\ outcome = "Complete"
  /\ hpc = "fw_restart"
  /\ written = OtaSize
  /\ content_len = OtaSize

\* C20: when esp_ota_end fails, the handler returns with the partition to boot
\* next as it was, and the request has failed at the verification.
C20_VerifierFailureKeepsBootPointer ==
  [][\A err \in StorageResults \ {ESP_OK}, berr \in StorageResults :
       FwEnd(err, berr) =>
         (bootSel' = bootSel /\ outcome' = "EndFailed" /\ hpc' = "idle" /\ ota' = ota)]_vars

C20_Witness ==
  /\ outcome = "EndFailed"
  /\ written = content_len
  /\ written > 0
  /\ bootSel = running
  /\ ota[1 - running] = "staged"

\* C21: the partition to boot next changes only in the step that ends a Code
\* session with every declared byte written, a verified image and a successful
\* esp_ota_set_boot_partition; the handler reaches its restart only with the
\* pointer on the new image, and a failed esp_ota_set_boot_partition returns
\* with the pointer as it was.
C21_BootPointerAfterVerifiedImage ==
  /\ [](hpc = "fw_restart" =>
          (bootSel # running /\ ota[bootSel] = "image" /\ written = content_len
             /\ outcome = "Complete"))
  /\ [](outcome = "SetBootFailed" => (hpc = "idle" /\ bootSel = running))
  /\ [][bootSel' # bootSel =>
          (hpc = "fw_loop" /\ remaining = 0 /\ written = content_len
             /\ ota'[bootSel'] = "image" /\ FwEnd(ESP_OK, ESP_OK))]_vars

C21_Witness ==
  /\ outcome = "SetBootFailed"
  /\ hpc = "idle"
  /\ written = content_len
  /\ ota[1 - running] = "image"
  /\ bootSel = running

C23_TimeoutsBounded ==
  hpc \in {"fw_loop", "fs_loop"} => timeouts <= 3

\* C24: a receive error ends the request at once, with nothing written, erased
\* or committed by that step, and leaves the server task free for the next one.
C24_ReceiveErrorFailsAtOnce ==
  /\ [](outcome = "ReceiveError" => (hpc = "idle" /\ sessions = {} /\ HandlerFree))
  /\ [][(FwRecvError \/ FsRecvError) =>
          (hpc' = "idle" /\ sessions' = {} /\ outcome' = "ReceiveError"
             /\ UNCHANGED <<written, chunks, ota, dataPart, bootSel, running,
                            ws_clients, bpc, ppc>>)]_vars

C24_Witness ==
  /\ outcome = "ReceiveError"
  /\ hpc = "idle"
  /\ Len(chunks) = 2
  /\ written < content_len

RECURSIVE SumLen(_, _)
SumLen(cs, n) == IF n = 0 THEN 0 ELSE SumLen(cs, n - 1) + cs[n][2]

\* C25: every chunk of an upload is written at the offset that equals the bytes
\* written before it, a receive timeout changes neither the count nor the flash,
\* and the step that ends the loop successfully ends it Complete with every
\* declared byte written.
C25_ChunksInOrderTimeoutsHarmless ==
  /\ [](hpc \in UploadPositions =>
          /\ \A i \in 1..Len(chunks) : chunks[i][1] = SumLen(chunks, i - 1)
          /\ written = SumLen(chunks, Len(chunks)))
  /\ [][(FwRecvTimeout \/ FsRecvTimeout) =>
          UNCHANGED <<written, remaining, chunks, ota, dataPart, bootSel, hpc>>]_vars
  /\ [][(FsEnd \/ FwEnd(ESP_OK, ESP_OK)) =>
          (outcome' = "Complete" /\ written' = content_len)]_vars

C25_Witness ==
  /\ hpc = "fs_restart"
  /\ outcome = "Complete"
  /\ retried
  /\ chunks = << <<0, 1>>, <<1, 2>> >>

\* C26: the only step that makes the indicator Fault is the fault policy of the
\* caller.
C26_OnlyCallerSetsFault ==
  [][(currentState # ERROR /\ currentState' = ERROR) => CallerSetsFault]_vars

C26_Witness ==
  /\ currentState = UPLOADING
  /\ ledCall = <<UPLOADING, WIFI_DISCONNECTED>>
  /\ Len(ws_clients) = 2
  /\ hpc = "idle"

\* C27: the payloads passed to the transmit primitive are the payloads of the
\* non-empty frames received from the clients, each once and in receive order.
C27_ClientDataForwarded ==
  txCalls = rxFrames

\* C28: no send to a client happens while a task holds the registry mutex.
C28_NoSendInsideSection ==
  [][((\E t \in Broadcasters, res \in SendResults : BroadcastSend(t, res))
        \/ (\E res \in SendResults : PingSend(res))) =>
       ws_clients_mutex = NoTask]_vars

\* ways a session that was receiving can fail
SessionFailures == {"ReceiveError", "WriteFailed", "EndFailed", "SetBootFailed", "TooLarge"}

\* C29: a session is created only by a begin of the free server task when there
\* is none, it ends only to Complete (with nothing left to receive) or to a
\* failure, it is gone at once then, and after a failure the next begin is taken.
C29_SessionLifecycle ==
  /\ [][sessions' # sessions =>
          \/ /\ sessions = {}
             /\ hpc = "idle"
             /\ Cardinality(sessions') = 1
             /\ hpc' \in {"fw_loop", "fs_loop"}
          \/ /\ sessions' = {}
             /\ hpc \in {"fw_loop", "fs_loop"}
             /\ \/ hpc' \in {"fw_restart", "fs_restart"} /\ outcome' = "Complete"
                     /\ remaining = 0
                \/ hpc' = "idle" /\ outcome' \in SessionFailures]_vars
  /\ []((hpc = "idle" /\ outcome \in SessionFailures) =>
          ENABLED FwBegin(TRUE, 1, TRUE, ESP_OK, TRUE))

C29_Witness ==
  /\ hpc = "fw_loop"
  /\ dataPart = "staged"
  /\ sessions = {"Code"}
  /\ written > 0

\* C30: while an upload handler is past its begin, the indicator shows Updating
\* or Fault.
C30_UpdatingWhileSession ==
  hpc \in ({"upload"} \cup UploadPositions) => currentState \in {UPLOADING, ERROR}

C30_Witness ==
  /\ hpc = "upload"
  /\ ledCall = <<UPLOADING, WIFI_DISCONNECTED>>
  /\ currentState = UPLOADING
  /\ Len(ws_clients) = 1

\* C31: a request that fails the authentication check changes neither the flash
\* nor the indicator, starts no session and leaves the server task free.
C31_UnauthorizedChangesNothing ==
  [][(\E len \in 0..MaxLen, f \in BOOLEAN, err \in StorageResults, buf \in BOOLEAN :
        FwBegin(FALSE, len, f, err, buf) \/ FsBegin(FALSE, len, f, err, buf)) =>
       (/\ UNCHANGED <<currentState, ota, dataPart, bootSel, running, sessions, written,
                       content_len, remaining>>
        /\ hpc' = "idle"
        /\ outcome' = "Unauthorized")]_vars

C31_Witness ==
  /\ outcome = "Unauthorized"
  /\ hpc = "idle"
  /\ currentState = IDLE
  /\ sessions = {}
  /\ dataPart = "live"
  /\ ota[1 - running] = "blank"

\* a handler that is past its begin keeps running; esp_restart() is reached
HandlerRun ==
  \/ FwRecvTimeout
  \/ FwRecvError
  \/ \E r \in 1..BUF_SZ, err \in WriteResults : FwWrite(r, err)
  \/ \E err \in StorageResults, berr \in StorageResults : FwEnd(err, berr)
  \/ FwRestart
  \/ FsRecvTimeout
  \/ FsRecvError
  \/ \E r \in 1..BUF_SZ, err \in WriteResults : FsWrite(r, err)
  \/ FsEnd
  \/ FsRestart

FairUpdate == SpecUpdate /\ WF_vars(HandlerRun)

\* the ways a request that had started receiving ends without success
FailedOutcomes == {"ReceiveError", "WriteFailed", "EndFailed", "SetBootFailed"}

\* C32: the handler is at its restart exactly when the request ended Complete,
\* the device restarts only from there and always does; a request that failed
\* leaves the server task idle, in particular when the verifier or
\* esp_ota_set_boot_partition failed.
C32_RestartIffComplete ==
  /\ [](hpc \in {"fw_restart", "fs_restart"} <=> outcome = "Complete")
  /\ [](outcome \in FailedOutcomes => hpc = "idle")
  /\ [][(FwRestart \/ FsRestart) => outcome = "Complete"]_vars
  /\ [][\A err \in StorageResults, berr \in StorageResults :
          (FwEnd(err, berr) /\ (err # ESP_OK \/ berr # ESP_OK)) =>
            (hpc' = "idle" /\ outcome' \in {"EndFailed", "SetBootFailed"})]_vars
  /\ (outcome = "Complete") ~> (outcome = "none" /\ hpc = "idle")

C32_Witness ==
  /\ outcome = "none"
  /\ hpc = "idle"
  /\ running = 1
  /\ ota[1] = "image"
  /\ dataPart = "live"

\* C33: with an empty registry the indicator does not show TerminalActive.
C33_TerminalActiveOnlyWithClients ==
  Len(ws_clients) = 0 => currentState # WEB_TERMINAL_ACTIVE

\* C34 as stated: with a client subscribed the indicator shows TerminalActive
\* unless it shows Updating or Fault.
C34_TerminalActiveWhileSubscribed ==
  (Len(ws_clients) > 0 /\ currentState \notin {UPLOADING, ERROR}) =>
    currentState = WEB_TERMINAL_ACTIVE

\* C34 amended: a network event replaces TerminalActive also while clients are
\* subscribed (a disconnect by NetworkDisconnected, a got-IP by Idle), and while
\* the registry stays non-empty nothing but a setState call asking for a network
\* state, Updating or Fault replaces it.
C34_NetworkEventsReplaceTerminalActive ==
  /\ [][(WifiDisconnected /\ currentState = WEB_TERMINAL_ACTIVE) =>
          currentState' = WIFI_DISCONNECTED]_vars
  /\ [][(WifiGotIp /\ currentState = WEB_TERMINAL_ACTIVE) => currentState' = IDLE]_vars
  /\ [][(currentState = WEB_TERMINAL_ACTIVE /\ currentState' # WEB_TERMINAL_ACTIVE
            /\ Len(ws_clients') > 0) =>
          (ledCall' # <<>> /\ ledCall'[2] \in {WIFI_DISCONNECTED, IDLE, UPLOADING, ERROR}
             /\ currentState' = ledCall'[2])]_vars

C34_Witness ==
  /\ Len(ws_clients) = 2
  /\ currentState = WIFI_DISCONNECTED
  /\ ledCall = <<WEB_TERMINAL_ACTIVE, WIFI_DISCONNECTED>>
  /\ hpc = "idle"

\* C35: after an upload that failed while receiving or committing, the indicator
\* eventually shows something else than Updating.
C35_IndicatorLeavesUpdating ==
  (hpc = "idle" /\ outcome \in FailedOutcomes /\ currentState = UPLOADING)
    ~> (currentState # UPLOADING)

\* C36: an upload request rejected before anything is erased (no partition, an
\* empty image, an image larger than the LittleFS partition) leaves the
\* indicator as it was.
C36_RejectedBeginKeepsIndicator ==
  [][(\E len \in 0..MaxLen, f \in BOOLEAN, err \in StorageResults, buf \in BOOLEAN :
        \/ FwBegin(TRUE, len, FALSE, err, buf)
        \/ (FsBegin(TRUE, len, f, err, buf) /\ (~f \/ len = 0 \/ len > FsSize))) =>
       currentState' = currentState]_vars

\* a task that holds a mutex or runs in a handler keeps running; a task that waits
\* for a mutex gets it when the mutex is free again and again
PingRun ==
  \/ \E res \in SendResults : PingSend(res)
  \/ PingLoopEnd
  \/ PingGive

FairLock ==
  /\ SpecLock
  /\ WF_vars(BroadcastRun("conn"))
  /\ SF_vars(BroadcastTake("conn"))
  /\ WF_vars(PingRun)
  /\ SF_vars(SubCrit)
  /\ SF_vars(CloseCrit)
  /\ WF_vars(SubGive)
  /\ WF_vars(CloseGive)
  /\ WF_vars(GetStateGive)

\* C37: the registry mutex is held only by a task inside its section, the
\* indicator mutex is held across steps only by led_task inside getState, which
\* takes nothing else; the server task waits for the indicator mutex while it
\* holds the registry, never the other way round; every mutex taken is given
\* back, and every broadcast, heartbeat round, subscribe, close and getState
\* returns.
C37_NoDeadlock ==
  /\ [](/\ stateMutex \in {NoTask, "led"}
        /\ (stateMutex = "led") <=> (lpc = "get")
        /\ (ws_clients_mutex = "httpd") <=>
             (hpc \in {"sub_crit", "sub_give", "close_crit", "close_give"})
        /\ (ws_clients_mutex = "conn") <=> (bpc["conn"] \in {"loop", "give"})
        /\ (ws_clients_mutex = "ping") <=> (ppc \in {"loop", "give"})
        /\ ws_clients_mutex \in {NoTask, "httpd", "conn", "ping"})
  /\ (ws_clients_mutex # NoTask) ~> (ws_clients_mutex = NoTask)
  /\ (stateMutex # NoTask) ~> (stateMutex = NoTask)
  /\ (bpc["conn"] = "take") ~> (bpc["conn"] = "idle")
  /\ (ppc = "loop") ~> (ppc = "delay")
  /\ (hpc # "idle") ~> (hpc = "idle")
  /\ (lpc = "get") ~> (lpc = "delay")

C37_Witness ==
  /\ hpc = "sub_crit"
  /\ ws_clients_mutex = "httpd"
  /\ Len(ws_clients) = 0
  /\ stateMutex = "led"
  /\ bpc["conn"] = "take"
  /\ currentState = WIFI_DISCONNECTED

\* C38: the call of vcp->tx_blocking that follows a passed `if (vcp)` runs while
\* the handle is still held.
C38_TransmitOnLiveHandle ==
  [][(hpc = "tx_use" /\ hpc' # "tx_use") => vcp]_vars

\* C39: a pending disconnect is followed by the release of the handle; whenever
\* the handle is released the loop is at VCP::open, also after a failed open; the
\* handle becomes held only by a successful open and released only by the
\* cleanup of a signalled disconnect.
C39_AttachmentLoopRecovers ==
  /\ [](device_disconnected_sem => vcp)
  /\ [](~vcp => ENABLED UsbOpen(TRUE))
  /\ [][(~vcp /\ vcp') => UsbOpen(TRUE)]_vars
  /\ [][(vcp /\ ~vcp') => (UsbCleanup /\ device_disconnected_sem)]_vars
  /\ device_disconnected_sem ~> ~vcp

C39_Witness ==
  /\ ~vcp
  /\ ~device_disconnected_sem
  /\ maxEnd > 0
  /\ serial_buffer_len = 0
  /\ rpc = "idle"

\* C40: the buffered length stays within the buffer, no memcpy ends behind it,
\* the memcpy about to run fits, and a chunk that does not fit behind the
\* buffered bytes resets the length and is cut to the buffer size.
C40_SerialBufferBounded ==
  /\ [](/\ serial_buffer_len \in 0..SerialBufferSize
        /\ maxEnd <= SerialBufferSize
        /\ rpc = "copy" => serial_buffer_len + copy_len <= SerialBufferSize
        /\ rpc \in {"load", "store"} => copy_len <= SerialBufferSize)
  /\ [][(RxCheck /\ serial_buffer_len + data_len > SerialBufferSize) =>
          (/\ serial_buffer_len' = 0
           /\ copy_len' = IF data_len > SerialBufferSize THEN SerialBufferSize
                                                          ELSE data_len)]_vars

C40_Witness ==
  /\ rpc = "store"
  /\ data_len > SerialBufferSize
  /\ copy_len = SerialBufferSize
  /\ maxEnd = SerialBufferSize
  /\ rtmp = 0

====
